---- MODULE Spec2Model ----
(***************************************************************************)
(* Model of sharktuner/spec_builder.py (build_td_spec) and of              *)
(* sharktank/utils/testing.py (assert_close_safetensors).                  *)
(*                                                                         *)
(* Text is a sequence of atoms.  Identifiers (SSA names, configuration     *)
(* names, decimal indices) are spelled character by character, so that two *)
(* formatted names are equal exactly when their characters are; keywords   *)
(* and punctuation of the templates are multi-character atoms.             *)
(***************************************************************************)
EXTENDS Integers, Sequences, FiniteSets, TLC

\* ------------------------------------------------------------------ bounds
MaxConfigs == 2
MaxOperands == 2

\* --------------------------------------------------------------- constants
ROOT_OP_ATTR_NAME == "root_op"

UnitAttr == "UnitAttr"
IntegerAttr == "IntegerAttr"
OTHER_ATTR_NAME == "other"

\* The callers of build_td_spec: one call at a time uses "t1" only.
Threads == {"t1", "t2"}

\* --------------------------------------------------------- text primitives
NL == "\n"
IND4 == "    "
IND8 == "        "
IND12 == "            "
IND14 == "              "
IND16 == "                "
Blanks == {IND4, IND8, IND12, IND14, IND16}
CommaSep == ", "

RECURSIVE Join(_, _)
\* sep.join(parts): parts is a sequence of texts
Join(parts, sep) ==
    IF Len(parts) = 0 THEN <<>>
    ELSE IF Len(parts) = 1 THEN parts[1]
    ELSE parts[1] \o sep \o Join(Tail(parts), sep)

DigitChar(d) == <<"0", "1", "2", "3", "4", "5", "6", "7", "8", "9">>[d + 1]

RECURSIVE Str(_)
\* str(i) of a non-negative int, as f"{i}" formats it
Str(n) == IF n < 10 THEN <<DigitChar(n)>> ELSE Str(n \div 10) \o <<DigitChar(n % 10)>>

\* the lines of a text, split at every newline atom
SplitLines(text) ==
    LET n == Len(text)
        nl == SelectSeq([k \in 1..n |-> k], LAMBDA k : text[k] = NL)
    IN [i \in 1..(Len(nl) + 1) |->
           SubSeq(text, IF i = 1 THEN 1 ELSE nl[i - 1] + 1,
                        IF i > Len(nl) THEN n ELSE nl[i] - 1)]

Contains(text, atom) == \E k \in 1..Len(text) : text[k] = atom

\* ------------------------------------------------------------ the IR model
\* Operand values of the root op: identity, SSA name and type.
Values == {"v0", "v1", "v2"}

get_name(v) ==
    CASE v = "v0" -> <<"%", "a">>
      [] v = "v1" -> <<"%", "b">>
      [] v = "v2" -> <<"%", "c">>

TypeOf(v) ==
    CASE v = "v0" -> "tensor<4xf32>"
      [] v = "v1" -> "tensor<4xi32>"
      [] v = "v2" -> "tensor<4xf32>"

RECURSIVE SeqsUpTo(_, _)
SeqsUpTo(S, n) ==
    IF n = 0 THEN {<<>>}
    ELSE LET shorter == SeqsUpTo(S, n - 1)
         IN shorter \cup {Append(s, x) : s \in {q \in shorter : Len(q) = n - 1}, x \in S}

OperandLists == SeqsUpTo(Values, MaxOperands)

\* attribute dictionaries of the op: name -> concrete attribute kind
AttrDicts ==
    {d \in UNION {[N -> {UnitAttr, IntegerAttr}] : N \in SUBSET {ROOT_OP_ATTR_NAME, OTHER_ATTR_NAME}} :
        OTHER_ATTR_NAME \in DOMAIN d => d[OTHER_ATTR_NAME] = IntegerAttr}

DelAttr(attrs, name) == [n \in (DOMAIN attrs) \ {name} |-> attrs[n]]

SetAttr(attrs, name, value) ==
    [n \in (DOMAIN attrs) \cup {name} |-> IF n = name THEN value ELSE attrs[n]]

\* The printer lists the attribute dictionary sorted by name.
AttrOrder == <<OTHER_ATTR_NAME, ROOT_OP_ATTR_NAME>>

AttrText(attrs, name) ==
    IF attrs[name] = UnitAttr THEN <<name>> ELSE <<name, " = ", "7 : i64">>

PrintAttrs(attrs) ==
    LET present == SelectSeq(AttrOrder, LAMBDA n : n \in DOMAIN attrs)
    IN IF Len(present) = 0 THEN <<>>
       ELSE <<" {">> \o Join([k \in 1..Len(present) |-> AttrText(attrs, present[k])], <<CommaSep>>)
            \o <<"}">>

\* str(op)
PrintOp(attrs, operands) ==
    <<"\"test.root\"", "(">>
    \o Join([k \in 1..Len(operands) |-> get_name(operands[k])], <<CommaSep>>)
    \o <<")">> \o PrintAttrs(attrs) \o <<" : (">>
    \o Join([k \in 1..Len(operands) |-> <<TypeOf(operands[k])>>], <<CommaSep>>)
    \o <<") -> ()">>

\* ------------------------------------------------- TuningConfiguration lists
TuningConfigurations ==
    { [name |-> <<"x">>, configuration |-> "#cfg.a"],
      [name |-> <<"x">>, configuration |-> "#cfg.b"],
      [name |-> <<"x", "_", "1">>, configuration |-> "#cfg.a"],
      [name |-> <<"c", "o", "n", "t">>, configuration |-> "#cfg.a"] }

ConfigLists == SeqsUpTo(TuningConfigurations, MaxConfigs)

FuncNames == {"match_op"}

\* ------------------------------------------- build_td_spec: the pure steps
\* faulty variant: the operand is never recorded as captured
CaptureValue_Forgotten(captured_values, operand) == captured_values

\* `operand in captured_values`: membership by value identity
InCaptured(operand, captured_values) == operand \in captured_values

\* captured_values.add(operand)
CaptureValue(captured_values, operand) == captured_values \cup {operand}

\* f"{ssa_name}: {operand_type}"
BlockArg(operand) == get_name(operand) \o <<": ", TypeOf(operand)>>

RepeatedOperandWarning ==
    "Root op has repeated operand. This can cause failure to match in the resulting TD spec at compile time."

RECURSIVE WalkFrom(_, _, _)
\* the loop over op.operands from position k on; acc holds bbargs,
\* captured_values and the log (the operand position of every warning)
WalkFrom(operands, k, acc) ==
    IF k > Len(operands) THEN acc
    ELSE IF InCaptured(operands[k], acc.captured_values)
         THEN WalkFrom(operands, k + 1,
                       [acc EXCEPT !.warnings = Append(@, [at |-> k, msg |-> RepeatedOperandWarning])])
         ELSE WalkFrom(operands, k + 1,
                       [acc EXCEPT !.bbargs = Append(@, BlockArg(operands[k])),
                                   !.captured_values = CaptureValue(@, operands[k])])

WalkOperands(operands) ==
    WalkFrom(operands, 1, [bbargs |-> <<>>, captured_values |-> {}, warnings |-> <<>>])

\* fixed SSA names of the templates
Cont == <<"%", "c", "o", "n", "t">>
Ins == <<"%", "i", "n", "s">>
Outs == <<"%", "o", "u", "t", "s">>
OpArg == <<"%", "o", "p">>
CfgPrefix == <<"%", "c", "f", "g", "_">>

ParamConstantKw == " = transform.param.constant "
AnnotateKw == "transform.annotate "
AnyOp == "!transform.any_op"
AnyParam == "!transform.any_param"
ReadOnlyParam == ": !transform.any_param {transform.readonly}"

\* faulty variant: the position is left out of the variable
ConfigVar_NameOnly(config, i) == <<"%">> \o config.name

\* f"%{config.name}_{i}", i the position counted from 0
ConfigVar(config, i) == <<"%">> \o config.name \o <<"_">> \o Str(i)

\* f"{config_var} = transform.param.constant {config.configuration} -> !transform.any_param"
ConfigLine(config, i) ==
    ConfigVar(config, i) \o <<ParamConstantKw, config.configuration, " -> ", AnyParam>>

\* faulty variant: a configuration whose name was already seen is dropped
ConfigLines_UniqueNames(config_list) ==
    LET kept == SelectSeq([k \in 1..Len(config_list) |-> k],
                          LAMBDA k : \A j \in 1..(k - 1) : config_list[j].name # config_list[k].name)
    IN [m \in 1..Len(kept) |-> ConfigLine(config_list[kept[m]], kept[m] - 1)]

ConfigLines(config_list) ==
    [k \in 1..Len(config_list) |-> ConfigLine(config_list[k], k - 1)]

YieldVars(config_list) ==
    [k \in 1..Len(config_list) |-> ConfigVar(config_list[k], k - 1)]

ConfigBlock(config_list) == Join(ConfigLines(config_list), <<NL, IND16>>)

YieldList(config_list) == Join(<<Cont>> \o YieldVars(config_list), <<CommaSep>>)

YieldTypes(config_list) ==
    Join(<<(<<AnyOp>>)>> \o [k \in 1..Len(YieldVars(config_list)) |-> <<AnyParam>>], <<CommaSep>>)

\* f"%cfg_{i}: !transform.any_param {{transform.readonly}}"
AnnotationArg(i) == CfgPrefix \o Str(i) \o <<ReadOnlyParam>>

\* faulty variant: the parameters are numbered from 1
AnnotationArgs_FromOne(config_list) ==
    Join([k \in 1..Len(config_list) |-> AnnotationArg(k)], <<CommaSep>>)

AnnotationArgs(config_list) ==
    Join([k \in 1..Len(config_list) |-> AnnotationArg(k - 1)], <<CommaSep>>)

AnnotationLine(config, i) ==
    <<IND16, AnnotateKw>> \o OpArg \o <<" \"">> \o config.name \o <<"\" = ">>
    \o CfgPrefix \o Str(i) \o <<" : ", AnyOp, CommaSep, AnyParam>>

AnnotationLines(config_list) ==
    Join([k \in 1..Len(config_list) |-> AnnotationLine(config_list[k], k - 1)], <<NL>>)

ApplyOpConfigOpen == "transform.named_sequence @apply_op_config("
NamedSequenceAt == "transform.named_sequence @"
MatchDagKw == " = transform.iree.match.cast_compatible_dag_from_root "
MatchDagClose == "} : (!transform.any_op) -> (!transform.any_value, !transform.any_value)"
Bb0Open == "^bb0("
Bb0Close == "):"

\* the f-string spec_text
SpecText(func_name, bbargs, root_operation, config_list) ==
    <<IND8, "module attributes { transform.with_named_sequence, iree_codegen.tuning_spec_with_default_entrypoint } {", NL,
      IND8, "// Annotation Transform", NL,
      IND8, ApplyOpConfigOpen>> \o OpArg \o <<": !transform.any_op {transform.readonly}", CommaSep>>
        \o AnnotationArgs(config_list) \o <<") {", NL,
      IND8>> \o AnnotationLines(config_list) \o <<NL,
      IND12, "transform.yield", NL,
      IND8, "}", NL,
      NL,
      IND8, "// Custom Op Matcher", NL,
      IND8, NamedSequenceAt, func_name, "(">> \o Cont \o <<": !transform.any_op {transform.readonly}", ")", NL,
      IND12, "-> (">> \o YieldTypes(config_list) \o <<") {", NL,
      IND12>> \o Ins \o <<CommaSep>> \o Outs \o <<MatchDagKw>> \o Cont \o <<" {", NL,
      IND14, Bb0Open>> \o Join(bbargs, <<CommaSep>>) \o <<Bb0Close, NL,
      IND14>> \o root_operation \o <<NL,
      IND12, MatchDagClose, NL,
      IND12>> \o ConfigBlock(config_list) \o <<NL,
      IND12, "transform.yield ">> \o YieldList(config_list) \o <<" : ">> \o YieldTypes(config_list) \o <<NL,
      IND8, "}", NL,
      NL,
      IND8, "// Entry Point", NL,
      IND8, "transform.named_sequence", NL,
      IND8, "@__kernel_config(%variant_op: !transform.any_op {transform.consumed}) -> !transform.any_op", NL,
      IND12, "attributes { iree_codegen.tuning_spec_entrypoint } {", NL,
      IND12, "%res = transform.foreach_match in %variant_op", NL,
      IND16, "@", func_name, " -> @apply_op_config", NL,
      IND12, ": (!transform.any_op) -> !transform.any_op", NL,
      IND12, "transform.yield %res : !transform.any_op", NL,
      IND8, "}", NL,
      IND4, "}">>

\* ----------------------------------- build_td_spec: the root_op attribute
\* faulty variant: the kind of the attribute is not checked
IsUnitAttr_Unchecked(attr) == TRUE

\* isinstance(op.opview.attributes[ROOT_OP_ATTR_NAME], ir.UnitAttr)
IsUnitAttr(attr) == attr = UnitAttr

\* faulty variant: the attribute is left in place
RemoveRootAttr_Kept(attrs, has_root) == attrs

\* faulty variant: the attribute is not put back
RestoreRootAttr_Skipped(attrs, has_root) == attrs

\* faulty variant: the attribute is set whether or not it was there
RestoreRootAttr_Always(attrs, has_root) == SetAttr(attrs, ROOT_OP_ATTR_NAME, UnitAttr)

\* lines 53-54: `if has_root_attr: del op.opview.attributes[ROOT_OP_ATTR_NAME]`
RemoveRootAttr(attrs, has_root) ==
    IF has_root THEN DelAttr(attrs, ROOT_OP_ATTR_NAME) ELSE attrs

\* lines 57-58: `if has_root_attr: op.opview.attributes[...] = ir.UnitAttr.get(...)`
RestoreRootAttr(attrs, has_root) ==
    IF has_root THEN SetAttr(attrs, ROOT_OP_ATTR_NAME, UnitAttr) ELSE attrs

\* ------------------------------------------------------------------- state
VARIABLES
    attributes,      \* op.opview.attributes of the root op, shared by all calls
    operands,        \* op.operands
    pc,              \* per call: the statement of build_td_spec it is at
    config_list,     \* per call: argument
    func_name,       \* per call: argument
    has_root_attr,   \* per call: local of line 48
    root_operation,  \* per call: local of line 56 (<<>> while unset)
    bbargs,          \* per call: local
    warnings,        \* per call: what logging.warning received
    spec_text,       \* per call: local of line 103 (<<>> while unset)
    error,           \* per call: the exception that left the call, or "none"
    entry_attrs,     \* per call: the attribute dictionary when the call began
    overlapped,      \* whether two calls were ever in progress at once
    \* assert_close_safetensors (testing.py)
    ref_kind,        \* what ref_path is: "missing", "file" or "dir"
    ref_tree,        \* sub-path -> tensors of the reference .safetensors file there
    actual_tree,     \* sub-path -> tensors of the actual file there (no entry: no file)
    ref_file_paths,  \* the reference files in the order the sort by mtime gives
    rtol, atol, fail_fast,
    st_pc,           \* the statement the outermost call is at
    file_index,      \* directory loop: position in ref_file_paths
    not_close_list   \* directory loop: the (actual, ref) pairs recorded

tdVars == <<attributes, operands, pc, config_list, func_name, has_root_attr, root_operation,
            bbargs, warnings, spec_text, error, entry_attrs, overlapped>>

stVars == <<ref_kind, ref_tree, actual_tree, ref_file_paths, rtol, atol, fail_fast,
            st_pc, file_index, not_close_list>>

vars == <<tdVars, stVars>>

Finished == {"idle", "returned", "raised"}

NoError == [exc |-> "none", line |-> 0]

InCall(t) == pc[t] \notin Finished

TypeOK ==
    /\ attributes \in AttrDicts
    /\ operands \in OperandLists
    /\ pc \in [Threads -> {"idle", "assert", "del", "str", "set", "operands", "format",
                           "parse", "returned", "raised"}]
    /\ has_root_attr \in [Threads -> BOOLEAN]
    /\ error \in [Threads -> [exc : {"none", "AssertionError", "KeyError", "PrintError", "MLIRError"},
                            line : {0, 51, 54, 56, 132}]]
    /\ overlapped \in BOOLEAN

InitCalls ==
    /\ pc = [t \in Threads |-> "idle"]
    /\ config_list = [t \in Threads |-> <<>>]
    /\ func_name = [t \in Threads |-> "match_op"]
    /\ has_root_attr = [t \in Threads |-> FALSE]
    /\ root_operation = [t \in Threads |-> <<>>]
    /\ bbargs = [t \in Threads |-> <<>>]
    /\ warnings = [t \in Threads |-> <<>>]
    /\ spec_text = [t \in Threads |-> <<>>]
    /\ error = [t \in Threads |-> NoError]
    /\ entry_attrs = [t \in Threads |-> attributes]
    /\ overlapped = FALSE

\* assert_close_safetensors is not running
NoComparison ==
    /\ ref_kind = "missing"
    /\ ref_tree = <<>>
    /\ actual_tree = <<>>
    /\ ref_file_paths = <<>>
    /\ rtol = 0
    /\ atol = 0
    /\ fail_fast = TRUE
    /\ st_pc = "off"
    /\ file_index = 1
    /\ not_close_list = <<>>

Init ==
    /\ attributes \in AttrDicts
    /\ operands \in OperandLists
    /\ InitCalls
    /\ NoComparison

\* lines 35-48: the call begins; bbargs = [] and the presence test
Entry(t, cl, fn) ==
    /\ pc[t] = "idle"
    /\ pc' = [pc EXCEPT ![t] = "assert"]
    /\ config_list' = [config_list EXCEPT ![t] = cl]
    /\ func_name' = [func_name EXCEPT ![t] = fn]
    /\ has_root_attr' = [has_root_attr EXCEPT ![t] = ROOT_OP_ATTR_NAME \in DOMAIN attributes]
    /\ entry_attrs' = [entry_attrs EXCEPT ![t] = attributes]
    /\ overlapped' = (overlapped \/ \E u \in Threads \ {t} : InCall(u))
    /\ UNCHANGED <<attributes, operands, root_operation, bbargs, warnings, spec_text, error>>
    /\ UNCHANGED stVars

\* an exception leaves the call from the given source line
Raise(t, exc, line) ==
    /\ pc' = [pc EXCEPT ![t] = "raised"]
    /\ error' = [error EXCEPT ![t] = [exc |-> exc, line |-> line]]

\* lines 49-52: the assert reads the attribute again
AssertUnit(t) ==
    /\ pc[t] = "assert"
    /\ IF ~has_root_attr[t] THEN pc' = [pc EXCEPT ![t] = "del"] /\ UNCHANGED error
       ELSE IF ROOT_OP_ATTR_NAME \notin DOMAIN attributes THEN Raise(t, "KeyError", 51)
       ELSE IF IsUnitAttr(attributes[ROOT_OP_ATTR_NAME])
            THEN pc' = [pc EXCEPT ![t] = "del"] /\ UNCHANGED error
            ELSE Raise(t, "AssertionError", 51)
    /\ UNCHANGED <<attributes, operands, config_list, func_name, has_root_attr, root_operation,
                   bbargs, warnings, spec_text, entry_attrs, overlapped>>
    /\ UNCHANGED stVars

\* lines 53-54: del of a key that is no longer there raises KeyError
DeleteRootAttr(t) ==
    /\ pc[t] = "del"
    /\ IF has_root_attr[t] /\ ROOT_OP_ATTR_NAME \notin DOMAIN attributes
       THEN Raise(t, "KeyError", 54) /\ UNCHANGED attributes
       ELSE /\ attributes' = RemoveRootAttr(attributes, has_root_attr[t])
            /\ pc' = [pc EXCEPT ![t] = "str"]
            /\ UNCHANGED error
    /\ UNCHANGED <<operands, config_list, func_name, has_root_attr, root_operation,
                   bbargs, warnings, spec_text, entry_attrs, overlapped>>
    /\ UNCHANGED stVars

\* line 56: root_operation = str(op)
Serialize(t) ==
    /\ pc[t] = "str"
    /\ root_operation' = [root_operation EXCEPT ![t] = PrintOp(attributes, operands)]
    /\ pc' = [pc EXCEPT ![t] = "set"]
    /\ UNCHANGED <<attributes, operands, config_list, func_name, has_root_attr,
                   bbargs, warnings, spec_text, error, entry_attrs, overlapped>>
    /\ UNCHANGED stVars

\* line 56: the printer of the external IR library raises
SerializeRaises(t) ==
    /\ pc[t] = "str"
    /\ Raise(t, "PrintError", 56)
    /\ UNCHANGED <<attributes, operands, config_list, func_name, has_root_attr, root_operation,
                   bbargs, warnings, spec_text, entry_attrs, overlapped>>
    /\ UNCHANGED stVars

\* lines 57-58
ReAddRootAttr(t) ==
    /\ pc[t] = "set"
    /\ attributes' = RestoreRootAttr(attributes, has_root_attr[t])
    /\ pc' = [pc EXCEPT ![t] = "operands"]
    /\ UNCHANGED <<operands, config_list, func_name, has_root_attr, root_operation,
                   bbargs, warnings, spec_text, error, entry_attrs, overlapped>>
    /\ UNCHANGED stVars

\* lines 62-78: the walk over op.operands
CaptureOperands(t) ==
    /\ pc[t] = "operands"
    /\ LET w == WalkOperands(operands)
       IN /\ bbargs' = [bbargs EXCEPT ![t] = w.bbargs]
          /\ warnings' = [warnings EXCEPT ![t] = w.warnings]
    /\ pc' = [pc EXCEPT ![t] = "format"]
    /\ UNCHANGED <<attributes, operands, config_list, func_name, has_root_attr, root_operation,
                   spec_text, error, entry_attrs, overlapped>>
    /\ UNCHANGED stVars

\* lines 78-131: the text is assembled
Format(t) ==
    /\ pc[t] = "format"
    /\ spec_text' = [spec_text EXCEPT ![t] =
                        SpecText(func_name[t], bbargs[t], root_operation[t], config_list[t])]
    /\ pc' = [pc EXCEPT ![t] = "parse"]
    /\ UNCHANGED <<attributes, operands, config_list, func_name, has_root_attr, root_operation,
                   bbargs, warnings, error, entry_attrs, overlapped>>
    /\ UNCHANGED stVars

\* line 132: ir.Module.parse accepts the text and the module is returned
ParseReturns(t) ==
    /\ pc[t] = "parse"
    /\ pc' = [pc EXCEPT ![t] = "returned"]
    /\ UNCHANGED <<attributes, operands, config_list, func_name, has_root_attr, root_operation,
                   bbargs, warnings, spec_text, error, entry_attrs, overlapped>>
    /\ UNCHANGED stVars

\* line 132: ir.Module.parse rejects the text
ParseRaises(t) ==
    /\ pc[t] = "parse"
    /\ Raise(t, "MLIRError", 132)
    /\ UNCHANGED <<attributes, operands, config_list, func_name, has_root_attr, root_operation,
                   bbargs, warnings, spec_text, entry_attrs, overlapped>>
    /\ UNCHANGED stVars

\* The call is over (line 132, or the exception that left it): its frame,
\* with every local, is gone and the caller goes on with the same op.
Leave(t) ==
    /\ pc[t] \in {"returned", "raised"}
    /\ pc' = [pc EXCEPT ![t] = "idle"]
    /\ config_list' = [config_list EXCEPT ![t] = <<>>]
    /\ func_name' = [func_name EXCEPT ![t] = "match_op"]
    /\ has_root_attr' = [has_root_attr EXCEPT ![t] = FALSE]
    /\ root_operation' = [root_operation EXCEPT ![t] = <<>>]
    /\ bbargs' = [bbargs EXCEPT ![t] = <<>>]
    /\ warnings' = [warnings EXCEPT ![t] = <<>>]
    /\ spec_text' = [spec_text EXCEPT ![t] = <<>>]
    /\ error' = [error EXCEPT ![t] = NoError]
    /\ entry_attrs' = [entry_attrs EXCEPT ![t] = attributes]
    /\ UNCHANGED <<attributes, operands, overlapped>>
    /\ UNCHANGED stVars

Step(t) ==
    \/ AssertUnit(t)
    \/ DeleteRootAttr(t)
    \/ Serialize(t)
    \/ SerializeRaises(t)
    \/ ReAddRootAttr(t)
    \/ CaptureOperands(t)
    \/ Format(t)
    \/ ParseReturns(t)
    \/ ParseRaises(t)
    \/ Leave(t)

\* The tuning session: the caller runs one build_td_spec call at a time.
Next ==
    \/ \E cl \in ConfigLists, fn \in FuncNames : Entry("t1", cl, fn)
    \/ Step("t1")

Spec == Init /\ [][Next]_vars

\* The callers do not serialize their calls: two calls on one op interleave
\* statement by statement.
ConcOperandLists == {<<"v0", "v1">>}

ConcConfigLists == {<<>>, <<[name |-> <<"x">>, configuration |-> "#cfg.a"]>>}

InitConc ==
    /\ attributes \in AttrDicts
    /\ operands \in ConcOperandLists
    /\ InitCalls
    /\ NoComparison

NextConc ==
    \E t \in Threads :
        \/ \E cl \in ConcConfigLists, fn \in FuncNames : Entry(t, cl, fn)
        \/ Step(t)

SpecConc == InitConc /\ [][NextConc]_vars

\* ------------------------------------------------------------ observations
HadMarker(t) == ROOT_OP_ATTR_NAME \in DOMAIN entry_attrs[t]

HadUnitMarker(t) == HadMarker(t) /\ entry_attrs[t][ROOT_OP_ATTR_NAME] = UnitAttr

\* the lines of the matcher body: between the line that opens the
\* cast_compatible_dag_from_root region and the line that closes it
MatcherBody(text) ==
    LET ls == SplitLines(text)
        open == CHOOSE k \in 1..Len(ls) : Contains(ls[k], MatchDagKw)
        close == CHOOSE k \in 1..Len(ls) : Contains(ls[k], MatchDagClose)
    IN SubSeq(ls, open + 1, close - 1)

MarkerInMatcher(t) ==
    /\ spec_text[t] # <<>>
    /\ LET body == MatcherBody(spec_text[t])
       IN \E k \in 1..Len(body) : Contains(body[k], ROOT_OP_ATTR_NAME)

\* ------------------------------------------------------------------ claims
\* C1: an op that carries the unit root_op marker when build_td_spec is
\* called has, when the call returns normally, the attribute dictionary it
\* had before the call (same keys, same values).
C1_AttributesRestoredOnReturn ==
    \A t \in Threads :
        (pc[t] = "returned" /\ HadUnitMarker(t)) => attributes = entry_attrs[t]

C1_Witness ==
    /\ pc["t1"] = "returned"
    /\ HadUnitMarker("t1")
    /\ OTHER_ATTR_NAME \in DOMAIN entry_attrs["t1"]
    /\ Len(config_list["t1"]) = 1

\* C2: the serialization placed in the matcher body is taken while the
\* marker is absent: the marker is removed before str(op) and put back only
\* after it, so neither root_operation nor the matcher body names it.
C2_SerializedWithoutMarker ==
    \A t \in Threads :
        /\ pc[t] \in {"str", "set"} => ROOT_OP_ATTR_NAME \notin DOMAIN attributes
        /\ ~Contains(root_operation[t], ROOT_OP_ATTR_NAME)
        /\ ~MarkerInMatcher(t)
        /\ (HadUnitMarker(t) /\ pc[t] \in {"operands", "format", "parse", "returned"})
               => (ROOT_OP_ATTR_NAME \in DOMAIN attributes /\ root_operation[t] # <<>>)

C2_Witness ==
    /\ pc["t1"] = "parse"
    /\ HadUnitMarker("t1")
    /\ spec_text["t1"] # <<>>
    /\ MatcherBody(spec_text["t1"])[2]
           = <<IND14>> \o PrintOp(DelAttr(entry_attrs["t1"], ROOT_OP_ATTR_NAME), operands)
    /\ Len(operands) = 2

\* C3: on every exit of build_td_spec, by return or by an exception, an op
\* that carried the marker at entry carries it again.
C3_MarkerRestoredOnEveryExit ==
    \A t \in Threads :
        (pc[t] \in {"returned", "raised"} /\ HadMarker(t))
            => ROOT_OP_ATTR_NAME \in DOMAIN attributes

\* C4: a call serializes the op with the marker on it, or deletes a marker
\* that is already gone, only when two calls were in progress at once; and
\* with two interleaved calls that does happen.
C4_UnsafeOnlyWhenInterleaved ==
    (\E t \in Threads :
        \/ Contains(root_operation[t], ROOT_OP_ATTR_NAME)
        \/ MarkerInMatcher(t)
        \/ error[t] = [exc |-> "KeyError", line |-> 54])
    => overlapped

C4_Witness ==
    /\ overlapped
    /\ pc["t2"] = "returned"
    /\ HadUnitMarker("t1")
    /\ Contains(root_operation["t2"], ROOT_OP_ATTR_NAME)
    /\ MarkerInMatcher("t2")

\* C5: when root_op is present but is not a unit attribute the call raises
\* the assertion error with the op untouched: nothing deleted, nothing
\* serialized, no text and no module.
C5_NonUnitMarkerRejected ==
    \A t \in Threads :
        (HadMarker(t) /\ ~HadUnitMarker(t) /\ pc[t] \notin {"idle", "assert"})
            => /\ pc[t] = "raised"
               /\ error[t] = [exc |-> "AssertionError", line |-> 51]
               /\ attributes = entry_attrs[t]
               /\ root_operation[t] = <<>>
               /\ spec_text[t] = <<>>

C5_Witness ==
    /\ pc["t1"] = "raised"
    /\ error["t1"].exc = "AssertionError"
    /\ entry_attrs["t1"][ROOT_OP_ATTR_NAME] = IntegerAttr

\* C9: a call on an op without the marker never changes the op: at every
\* statement of the call the attribute dictionary, and so the serialization,
\* is what it was when the call began.
C9_NoMarkerNoMutation ==
    \A t \in Threads :
        (pc[t] # "idle" /\ ~HadMarker(t))
            => /\ attributes = entry_attrs[t]
               /\ PrintOp(attributes, operands) = PrintOp(entry_attrs[t], operands)
               /\ root_operation[t] \in {<<>>, PrintOp(entry_attrs[t], operands)}

C9_Witness ==
    /\ pc["t1"] = "returned"
    /\ ~HadMarker("t1")
    /\ OTHER_ATTR_NAME \in DOMAIN entry_attrs["t1"]
    /\ root_operation["t1"] = PrintOp(attributes, operands)

\* ---------------------------------------------------- reading the text back
RECURSIVE Strip(_)
\* a line without its leading indentation
Strip(line) == IF Len(line) > 0 /\ Head(line) \in Blanks THEN Strip(Tail(line)) ELSE line

LinesWith(text, atom) == SelectSeq(SplitLines(text), LAMBDA l : Contains(l, atom))

\* the atoms of a line before the given keyword
Before(line, atom) ==
    LET k == CHOOSE i \in 1..Len(line) : line[i] = atom /\ \A j \in 1..(i - 1) : line[j] # atom
    IN SubSeq(line, 1, k - 1)

\* the SSA variable a transform.param.constant line binds
ParamVar(line) == Before(Strip(line), ParamConstantKw)

HasText(t) == spec_text[t] # <<>>

\* C6: the text holds exactly len(config_list) transform.param.constant
\* lines and as many transform.annotate lines, and the i-th of each kind is
\* the one of the i-th configuration (its name, its position, its value).
C6_OneLinePerConfiguration ==
    \A t \in Threads :
        HasText(t) =>
            LET cl == config_list[t]
                params == LinesWith(spec_text[t], ParamConstantKw)
                annots == LinesWith(spec_text[t], AnnotateKw)
            IN /\ Len(params) = Len(cl)
               /\ Len(annots) = Len(cl)
               /\ \A k \in 1..Len(cl) :
                      /\ Strip(params[k]) =
                             <<"%">> \o cl[k].name \o <<"_">> \o Str(k - 1)
                             \o <<" = transform.param.constant ", cl[k].configuration, " -> ",
                                  "!transform.any_param">>
                      /\ Strip(annots[k]) =
                             <<"transform.annotate ", "%", "o", "p", " \"">> \o cl[k].name
                             \o <<"\" = ", "%", "c", "f", "g", "_">> \o Str(k - 1)
                             \o <<" : ", "!transform.any_op", ", ", "!transform.any_param">>

C6_Witness ==
    /\ pc["t1"] = "returned"
    /\ Len(config_list["t1"]) = 2
    /\ config_list["t1"][1].name = config_list["t1"][2].name
    /\ config_list["t1"][1].configuration # config_list["t1"][2].configuration
    /\ Len(LinesWith(spec_text["t1"], AnnotateKw)) = 2

\* C7: the variables bound by the transform.param.constant lines of one
\* text are pairwise distinct, and none is %cont, %ins or %outs.
C7_ConfigVarsUnique ==
    \A t \in Threads :
        HasText(t) =>
            LET params == LinesWith(spec_text[t], ParamConstantKw)
            IN /\ \A i, j \in 1..Len(params) :
                      i # j => ParamVar(params[i]) # ParamVar(params[j])
               /\ \A i \in 1..Len(params) : ParamVar(params[i]) \notin {Cont, Ins, Outs}

C7_Witness ==
    /\ pc["t1"] = "returned"
    /\ Len(config_list["t1"]) = 2
    /\ config_list["t1"][1].name = <<"x", "_", "1">>
    /\ config_list["t1"][2].name = <<"x">>
    /\ ParamVar(LinesWith(spec_text["t1"], ParamConstantKw)[2]) = <<"%", "x", "_", "1">>

Distinct(ops) == {ops[k] : k \in 1..Len(ops)}

FirstOcc(ops, v) ==
    CHOOSE i \in 1..Len(ops) : ops[i] = v /\ \A j \in 1..(i - 1) : ops[j] # v

Occurrences(ops, v) == Cardinality({k \in 1..Len(ops) : ops[k] = v})

Walked(t) ==
    \/ pc[t] \in {"format", "parse", "returned"}
    \/ pc[t] = "raised" /\ error[t].line = 132

\* C8: one block argument '<ssaName>: <type>' per distinct operand, in order
\* of first occurrence, in bbargs and in the ^bb0 line of the text; the walk
\* never raises; an operand that occurs twice gets exactly one warning.
C8_OneBlockArgPerOperand ==
    \A t \in Threads :
        Walked(t) =>
            /\ Len(bbargs[t]) = Cardinality(Distinct(operands))
            /\ \A v \in Distinct(operands) :
                   LET rank == 1 + Cardinality({w \in Distinct(operands) :
                                                   FirstOcc(operands, w) < FirstOcc(operands, v)})
                   IN bbargs[t][rank] = get_name(v) \o <<": ", TypeOf(v)>>
            /\ \A v \in Distinct(operands) :
                   Occurrences(operands, v) = 2 =>
                       Cardinality({k \in 1..Len(warnings[t]) :
                                       operands[warnings[t][k].at] = v}) = 1
            /\ Len(warnings[t]) = Len(operands) - Cardinality(Distinct(operands))
            /\ HasText(t) =>
                   LinesWith(spec_text[t], Bb0Open) =
                       << <<IND14, Bb0Open>> \o Join(bbargs[t], <<", ">>) \o <<Bb0Close>> >>

C8_Witness ==
    /\ pc["t1"] = "returned"
    /\ Len(operands) = 2
    /\ operands[1] = operands[2]
    /\ Len(bbargs["t1"]) = 1
    /\ Len(warnings["t1"]) = 1

\* ------------------------------------------- reading the sequences back
\* the pieces of a text between the occurrences of a separator atom
SplitOn(text, sep) ==
    LET n == Len(text)
        at == SelectSeq([k \in 1..n |-> k], LAMBDA k : text[k] = sep)
    IN [i \in 1..(Len(at) + 1) |->
           SubSeq(text, IF i = 1 THEN 1 ELSE at[i - 1] + 1,
                        IF i > Len(at) THEN n ELSE at[i] - 1)]

\* the atoms of a line after the first occurrence of an atom
After(line, atom) ==
    LET k == CHOOSE i \in 1..Len(line) : line[i] = atom /\ \A j \in 1..(i - 1) : line[j] # atom
    IN SubSeq(line, k + 1, Len(line))

Between(line, open, close) == Before(After(line, open), close)

\* the first of the lines that holds the atom
FirstLineWith(ls, atom) ==
    ls[CHOOSE k \in 1..Len(ls) : Contains(ls[k], atom) /\ \A j \in 1..(k - 1) : ~Contains(ls[j], atom)]

\* what stands between the parentheses of @apply_op_config(...), cut at ", "
ApplyOpConfigParams(text) ==
    SplitOn(Between(FirstLineWith(SplitLines(text), ApplyOpConfigOpen), ApplyOpConfigOpen, ") {"), ", ")

\* the result types of the matcher, from its '-> (...) {' line
MatcherResultTypes(text) ==
    SplitOn(Between(FirstLineWith(SplitLines(text), "-> ("), "-> (", ") {"), ", ")

\* the values of the matcher's 'transform.yield ... : ...' line
MatcherYieldValues(text) ==
    SplitOn(Between(FirstLineWith(SplitLines(text), "transform.yield "), "transform.yield ", " : "), ", ")

\* C11: for a configuration list of length n the matcher yields %cont and
\* then n values, typed one !transform.any_op and n !transform.any_param;
\* apply_op_config declares %op and then %cfg_0 .. %cfg_{n-1}; the i-th
\* yielded value is the constant of configuration i, and the annotate line
\* that uses %cfg_i carries the name of configuration i.
C11_MatcherAndAnnotationAgree ==
    \A t \in Threads :
        HasText(t) =>
            LET cl == config_list[t]
                n == Len(cl)
                text == spec_text[t]
                yield == FirstLineWith(SplitLines(text), "transform.yield ")
                values == SplitOn(Between(yield, "transform.yield ", " : "), ", ")
                types == <<(<<"!transform.any_op">>)>> \o [k \in 1..n |-> <<"!transform.any_param">>]
                declared == SelectSeq(ApplyOpConfigParams(text), LAMBDA d : d # <<>>)
                params == LinesWith(text, ParamConstantKw)
                annots == LinesWith(text, AnnotateKw)
            IN /\ Len(values) = n + 1
               /\ values[1] = <<"%", "c", "o", "n", "t">>
               /\ SplitOn(After(yield, " : "), ", ") = types
               /\ MatcherResultTypes(text) = types
               /\ Len(declared) = n + 1
               /\ declared[1] = <<"%", "o", "p", ": !transform.any_op {transform.readonly}">>
               /\ Len(params) = n
               /\ Len(annots) = n
               /\ \A k \in 1..n :
                      /\ declared[k + 1] = <<"%", "c", "f", "g", "_">> \o Str(k - 1)
                                           \o <<": !transform.any_param {transform.readonly}">>
                      /\ values[k + 1] = ParamVar(params[k])
                      /\ After(Strip(params[k]), ParamConstantKw)[1] = cl[k].configuration
                      /\ Between(Strip(annots[k]), " \"", "\" = ") = cl[k].name
                      /\ Before(After(Strip(annots[k]), "\" = "), " : ")
                             = <<"%", "c", "f", "g", "_">> \o Str(k - 1)

C11_Witness ==
    /\ pc["t1"] = "returned"
    /\ Len(config_list["t1"]) = 2
    /\ config_list["t1"][1].name # config_list["t1"][2].name
    /\ config_list["t1"][1].configuration # config_list["t1"][2].configuration
    /\ Len(MatcherYieldValues(spec_text["t1"])) = 3
    /\ Len(ApplyOpConfigParams(spec_text["t1"])) = 3

\* C12: for every configuration list, the empty one included, the parameter
\* list of apply_op_config is 1 + len(config_list) declarations separated by
\* single ", ": no empty element, no separator after the last declaration.
C12_ParamListWellFormed ==
    \A t \in Threads :
        HasText(t) =>
            LET elements == ApplyOpConfigParams(spec_text[t])
                written == Between(FirstLineWith(SplitLines(spec_text[t]), ApplyOpConfigOpen),
                                   ApplyOpConfigOpen, ") {")
            IN /\ Len(elements) = 1 + Len(config_list[t])
               /\ \A k \in 1..Len(elements) : elements[k] # <<>>
               /\ written[Len(written)] # ", "

\* ------------------------------------- testing.py: assert_close_safetensors
Subpaths == {"a.safetensors", "sub/b.safetensors"}

TensorNames == {"x", "y"}

TensorValues == {0, 1}

Tolerances == {0, 1}

\* a .safetensors file: tensor name -> tensor (one number)
FileContents == UNION {[N -> TensorValues] : N \in SUBSET TensorNames}

\* ref_f.keys(), in the order of the file
KeyOrder == <<"x", "y">>

Keys(file) == SelectSeq(KeyOrder, LAMBDA n : n \in DOMAIN file)

Abs(x) == IF x < 0 THEN -x ELSE x

\* torch.testing.assert_close(actual, ref, rtol=rtol, atol=atol) passes
IsClose(actual, ref, rt, at) == Abs(actual - ref) <= at + rt * Abs(ref)

RECURSIVE AssertLoop(_, _, _, _, _, _)
\* lines 269-279: "Then assert."  A mismatch raises when fail_fast is set and
\* is printed otherwise; the loop then goes on and the call returns.
AssertLoop(names, actual, ref, rt, at, ff) ==
    IF names = <<>> THEN "returned"
    ELSE IF ~IsClose(actual[Head(names)], ref[Head(names)], rt, at) /\ ff THEN "raised"
    ELSE AssertLoop(Tail(names), actual, ref, rt, at, ff)

\* lines 256-279: the call on one pair of files; safe_open raises when the
\* actual file is not there, get_tensor when it lacks a tensor of the ref
CompareFiles(path, actual_files, ref_files, rt, at, ff) ==
    IF path \notin DOMAIN actual_files THEN "raised"
    ELSE IF \E n \in DOMAIN ref_files[path] : n \notin DOMAIN actual_files[path] THEN "raised"
    ELSE AssertLoop(Keys(ref_files[path]), actual_files[path], ref_files[path], rt, at, ff)

Orderings(P) ==
    {q \in [1..Cardinality(P) -> P] : \A i, j \in 1..Cardinality(P) : i # j => q[i] # q[j]}

\* build_td_spec is not running
NoTuning ==
    /\ attributes = <<>>
    /\ operands = <<>>
    /\ InitCalls

InitST ==
    /\ NoTuning
    /\ ref_kind \in {"missing", "file", "dir"}
    /\ \E P \in SUBSET Subpaths :
          /\ ref_kind = "missing" => P = {}
          /\ ref_kind = "file" => Cardinality(P) = 1
          /\ ref_tree \in [P -> FileContents]
          /\ ref_file_paths \in Orderings(P)
          /\ \E Q \in SUBSET P : actual_tree \in [Q -> FileContents]
    /\ rtol \in Tolerances
    /\ atol \in Tolerances
    /\ fail_fast \in BOOLEAN
    /\ st_pc = "start"
    /\ file_index = 1
    /\ not_close_list = <<>>

\* lines 198-220: ref_path must exist; a directory is listed and sorted
ST_Start ==
    /\ st_pc = "start"
    /\ st_pc' = CASE ref_kind = "missing" -> "raised"
                  [] ref_kind = "file" -> "file"
                  [] ref_kind = "dir" -> "dir"
    /\ UNCHANGED <<ref_kind, ref_tree, actual_tree, ref_file_paths, rtol, atol, fail_fast,
                   file_index, not_close_list>>
    /\ UNCHANGED tdVars

\* lines 245-279: ref_path is a file
ST_CompareFile ==
    /\ st_pc = "file"
    /\ st_pc' = CompareFiles(ref_file_paths[1], actual_tree, ref_tree, rtol, atol, fail_fast)
    /\ UNCHANGED <<ref_kind, ref_tree, actual_tree, ref_file_paths, rtol, atol, fail_fast,
                   file_index, not_close_list>>
    /\ UNCHANGED tdVars

\* lines 222-236: one round of the loop over the reference files; the
\* nested call gets the same fail_fast
ST_DirNext ==
    /\ st_pc = "dir"
    /\ file_index <= Len(ref_file_paths)
    /\ LET path == ref_file_paths[file_index]
           outcome == IF path \notin DOMAIN actual_tree THEN "raised"
                      ELSE CompareFiles(path, actual_tree, ref_tree, rtol, atol, fail_fast)
       IN IF outcome = "raised" /\ fail_fast
          THEN st_pc' = "raised" /\ UNCHANGED <<file_index, not_close_list>>
          ELSE /\ st_pc' = "dir"
               /\ file_index' = file_index + 1
               /\ not_close_list' = IF outcome = "raised" THEN Append(not_close_list, path)
                                    ELSE not_close_list
    /\ UNCHANGED <<ref_kind, ref_tree, actual_tree, ref_file_paths, rtol, atol, fail_fast>>
    /\ UNCHANGED tdVars

\* lines 238-243: after the loop
ST_DirEnd ==
    /\ st_pc = "dir"
    /\ file_index > Len(ref_file_paths)
    /\ st_pc' = IF Len(not_close_list) > 0 THEN "raised" ELSE "returned"
    /\ UNCHANGED <<ref_kind, ref_tree, actual_tree, ref_file_paths, rtol, atol, fail_fast,
                   file_index, not_close_list>>
    /\ UNCHANGED tdVars

NextST ==
    \/ ST_Start
    \/ ST_CompareFile
    \/ ST_DirNext
    \/ ST_DirEnd

SpecST == InitST /\ [][NextST]_vars

\* a reference file whose actual file is missing, or a reference tensor that
\* is not within rtol/atol of the actual tensor of that name
NotWithinTolerances ==
    \E path \in DOMAIN ref_tree :
        \/ path \notin DOMAIN actual_tree
        \/ \E n \in DOMAIN ref_tree[path] :
               /\ n \in DOMAIN actual_tree[path]
               /\ Abs(actual_tree[path][n] - ref_tree[path][n])
                      > atol + rtol * Abs(ref_tree[path][n])

\* C10: for a file and for a directory, and for either value of fail_fast,
\* when some reference tensor is not within rtol/atol of the actual one, or
\* an actual file is missing, the call ends by raising.
C10_NotCloseRaises ==
    (st_pc \in {"returned", "raised"} /\ NotWithinTolerances) => st_pc = "raised"

====
